---- MODULE Spec2Model ----
(***************************************************************************)
(* Model of app/views.py: the trigger endpoint process_request, the task   *)
(* calculate_personal_cpi run by a ThreadPoolExecutor(max_workers=1), and  *)
(* the completion callback result_callback that reports the outcome.       *)
(***************************************************************************)
EXTENDS Integers, Sequences, FiniteSets, TLC

(***************************************************************************)
(* Bounds of the model.                                                    *)
(***************************************************************************)
MaxReq  == 2      \* trigger requests handled (one handler thread each)
MaxCats == 2      \* longest category list given to the calculation
NegVal  == 1      \* numeric userSpent / basePrice range over -NegVal..MaxVal
MaxVal  == 2

(***************************************************************************)
(* Program constants.                                                      *)
(***************************************************************************)
AUTH_TOKEN == "lab8token"
HTTP_200_OK == 200
HTTP_400_BAD_REQUEST == 400
HTTP_401_UNAUTHORIZED == 401
HTTP_500_INTERNAL_SERVER_ERROR == 500

(***************************************************************************)
(* JSON values of a category field.  A field is a number, null, absent, or *)
(* a value of another type (a non-empty string).                           *)
(***************************************************************************)
NumV(n)  == [k |-> "num", n |-> n]
NullV    == [k |-> "null", n |-> 0]
MissingV == [k |-> "missing", n |-> 0]
StrV     == [k |-> "str", n |-> 0]

\* personalCPI of an outcome: None, or a number kept in hundredths
\* (50.00 is 5000).
None      == [present |-> FALSE, val |-> 0]
Number(v) == [present |-> TRUE, val |-> v]

\* cat.get(field, 0) or 0
GetOrZero(v) == IF v.k \in {"null", "missing"} THEN NumV(0) ELSE v

\* Mutant: only the categories that will be counted enter the total, so
\* their weights add up to 1.
RECURSIVE SumSpentValidOnly(_, _, _)
SumSpentValidOnly(categories, i, acc) ==
  IF i > Len(categories) THEN [raised |-> FALSE, total |-> acc]
  ELSE LET us == GetOrZero(categories[i].userSpent)
           bp == GetOrZero(categories[i].basePrice)
       IN IF us.k = "str" THEN [raised |-> TRUE, total |-> 0]
          ELSE SumSpentValidOnly(categories, i + 1,
                 IF bp.k = "num" /\ bp.n > 0 /\ us.n > 0 THEN acc + us.n ELSE acc)

\* total_spent = sum(cat.get('userSpent', 0) or 0 for cat in categories):
\* adding a str to the running int raises TypeError.
RECURSIVE SumSpent(_, _, _)
SumSpent(categories, i, acc) ==
  IF i > Len(categories) THEN [raised |-> FALSE, total |-> acc]
  ELSE LET us == GetOrZero(categories[i].userSpent)
       IN IF us.k = "str" THEN [raised |-> TRUE, total |-> 0]
          ELSE SumSpent(categories, i + 1, acc + us.n)

Abs(x) == IF x < 0 THEN -x ELSE x

(***************************************************************************)
(* Python floats.  A float is an IEEE 754 double [sign, m, e] of value     *)
(* sign * m * 2^e, with sign in {-1, 0, 1} and m a natural number of        *)
(* MantBits bits; natural numbers of any size are sequences of limbs of    *)
(* LimbBits bits, least significant first, <<>> being 0.  Every operation  *)
(* rounds its exact result to the nearest double, ties to even.            *)
(***************************************************************************)
LimbBits == 15
Limb     == 32768
MantBits == 53

\* The operations are functions, not operators: a function is applied to
\* the values of its arguments, not to the argument expressions.
Pow2[k \in Nat] == IF k = 0 THEN 1 ELSE 2 * Pow2[k - 1]

Bits[n \in Nat] == IF n = 0 THEN 0 ELSE 1 + Bits[n \div 2]

Sign(n) == IF n = 0 THEN 0 ELSE IF n > 0 THEN 1 ELSE -1

Trim[a \in Seq(Nat)] ==
  IF a # <<>> /\ a[Len(a)] = 0 THEN Trim[SubSeq(a, 1, Len(a) - 1)] ELSE a

BigOfInt[n \in Nat] == IF n = 0 THEN <<>> ELSE <<n % Limb>> \o BigOfInt[n \div Limb]

IntOfBig[a \in Seq(Nat)] == IF a = <<>> THEN 0 ELSE Head(a) + Limb * IntOfBig[Tail(a)]

LimbAt(a, i) == IF i <= Len(a) THEN a[i] ELSE 0
Drop(a, n) == IF n >= Len(a) THEN <<>> ELSE SubSeq(a, n + 1, Len(a))
Zeros(n) == [i \in 1..n |-> 0]

\* a + b + c
BigAdd[a \in Seq(Nat), b \in Seq(Nat), c \in Nat] ==
  IF a = <<>> /\ b = <<>> THEN (IF c = 0 THEN <<>> ELSE <<c>>)
  ELSE LET x == LimbAt(a, 1) + LimbAt(b, 1) + c
       IN <<x % Limb>> \o BigAdd[Drop(a, 1), Drop(b, 1), x \div Limb]

\* a - b - borrow, for a >= b + borrow
BigSub[a \in Seq(Nat), b \in Seq(Nat), borrow \in Nat] ==
  IF a = <<>> THEN <<>>
  ELSE LET x == a[1] - LimbAt(b, 1) - borrow
       IN IF x < 0 THEN <<x + Limb>> \o BigSub[Tail(a), Drop(b, 1), 1]
          ELSE <<x>> \o BigSub[Tail(a), Drop(b, 1), 0]

\* The sign of a - b for a and b of the same length, from limb i down.
CmpFrom[a \in Seq(Nat), b \in Seq(Nat), i \in Nat] ==
  IF i = 0 THEN 0
  ELSE IF a[i] # b[i] THEN (IF a[i] > b[i] THEN 1 ELSE -1)
  ELSE CmpFrom[a, b, i - 1]

CmpTrimmed[x \in Seq(Nat), y \in Seq(Nat)] ==
  IF Len(x) # Len(y) THEN (IF Len(x) > Len(y) THEN 1 ELSE -1)
  ELSE CmpFrom[x, y, Len(x)]

BigCmp[a \in Seq(Nat), b \in Seq(Nat)] == CmpTrimmed[Trim[a], Trim[b]]

\* a * s + c for a small s
BigMulSmall[a \in Seq(Nat), s \in Nat, c \in Nat] ==
  IF a = <<>> THEN (IF c = 0 THEN <<>> ELSE <<c>>)
  ELSE LET x == a[1] * s + c
       IN <<x % Limb>> \o BigMulSmall[Tail(a), s, x \div Limb]

BigMul[a \in Seq(Nat), b \in Seq(Nat)] ==
  IF b = <<>> THEN <<>>
  ELSE BigAdd[BigMulSmall[a, b[1], 0], <<0>> \o BigMul[a, Tail(b)], 0]

TopBits[x \in Seq(Nat)] ==
  IF x = <<>> THEN 0 ELSE LimbBits * (Len(x) - 1) + Bits[x[Len(x)]]

\* The number of bits of a.
BitLen[a \in Seq(Nat)] == TopBits[Trim[a]]

\* a * 2^k
BigShl[a \in Seq(Nat), k \in Nat] ==
  Trim[Zeros(k \div LimbBits) \o BigMulSmall[a, Pow2[k % LimbBits], 0]]

\* The limbs i..1 of a divided by the small s, r being the remainder so far.
DivSmall[a \in Seq(Nat), s \in Nat, i \in Nat, r \in Nat] ==
  IF i = 0 THEN <<>>
  ELSE LET v == r * Limb + a[i]
       IN Append(DivSmall[a, s, i - 1, v % s], v \div s)

DropLimbs[x \in Seq(Nat), s \in Nat] == Trim[DivSmall[x, s, Len(x), 0]]

\* a \div 2^k
BigShr[a \in Seq(Nat), k \in Nat] ==
  DropLimbs[Drop(a, k \div LimbBits), Pow2[k % LimbBits]]

\* q = a \div 2^d, moved up by one when the rest c (a - q * 2^d compared with
\* the half 2^(d-1)) is above the half, or is the half and q is odd or
\* sticky says that bits were lost below a.
RoundUp[q \in Seq(Nat), c \in {-1, 0, 1}, sticky \in BOOLEAN] ==
  IF c > 0 \/ (c = 0 /\ (sticky \/ LimbAt(q, 1) % 2 = 1))
  THEN BigAdd[q, <<1>>, 0] ELSE q

RoundNearest[a \in Seq(Nat), q \in Seq(Nat), d \in Nat, sticky \in BOOLEAN] ==
  RoundUp[q, BigCmp[BigSub[a, BigShl[q, d], 0], BigShl[<<1>>, d - 1]], sticky]

\* a / 2^d for d > 0, rounded to the nearest integer, ties to even.
RoundShift[a \in Seq(Nat), d \in Nat, sticky \in BOOLEAN] ==
  RoundNearest[a, BigShr[a, d], d, sticky]

Floats == [sign : {-1, 0, 1}, m : Seq(Nat), e : Int]

FloatZero == [sign |-> 0, m |-> <<>>, e |-> 0]

\* The double of mantissa q, which has MantBits bits or one more after a
\* rounding that carried.
Normalised[sign \in {-1, 1}, q \in Seq(Nat), e \in Int] ==
  IF BitLen[q] > MantBits THEN [sign |-> sign, m |-> BigShr[q, 1], e |-> e + 1]
  ELSE [sign |-> sign, m |-> q, e |-> e]

FloatOfBits[sign \in {-1, 1}, a \in Seq(Nat), e \in Int, sticky \in BOOLEAN, n \in Nat] ==
  IF n <= MantBits
  THEN [sign |-> sign, m |-> BigShl[a, MantBits - n], e |-> e - (MantBits - n)]
  ELSE Normalised[sign, RoundShift[a, n - MantBits, sticky], e + n - MantBits]

\* The double nearest to sign * a * 2^e for a > 0 (exponents stay far inside
\* the range of a double).
FloatRound[sign \in {-1, 1}, a \in Seq(Nat), e \in Int, sticky \in BOOLEAN] ==
  FloatOfBits[sign, a, e, sticky, BitLen[a]]

\* float(n)
FloatOfInt[n \in Int] ==
  IF n = 0 THEN FloatZero
  ELSE FloatRound[Sign(n), BigOfInt[IF n < 0 THEN -n ELSE n], 0, FALSE]

\* k more bits of the quotient r / b for r < b: <<q, remainder>>.
DivBits[r \in Nat, b \in Nat, k \in Nat, q \in Nat] ==
  IF k = 0 THEN <<q, r>>
  ELSE IF 2 * r >= b THEN DivBits[2 * r - b, b, k - 1, 2 * q + 1]
  ELSE DivBits[2 * r, b, k - 1, 2 * q]

\* n more limbs of the fraction r / b for r < b, below the limbs acc:
\* <<limbs, remainder>>.
DivLimbs[r \in Nat, b \in Nat, n \in Nat, acc \in Seq(Nat)] ==
  IF n = 0 THEN <<acc, r>>
  ELSE LET g == DivBits[r, b, LimbBits, 0]
       IN DivLimbs[g[2], b, n - 1, <<g[1]>> \o acc]

Quotient[sign \in {-1, 1}, whole \in Nat, f \in Seq(Nat) \X Nat] ==
  FloatRound[sign, Trim[f[1] \o BigOfInt[whole]], -(6 * LimbBits), f[2] # 0]

\* a / b of two ints (true division, line 90 and line 91): the quotient with
\* 6 limbs of fraction, the remainder as sticky bit, rounded once.
FloatDivInt[a \in Int, b \in Int] ==
  IF a = 0 THEN FloatZero
  ELSE LET x == IF a < 0 THEN -a ELSE a
           y == IF b < 0 THEN -b ELSE b
       IN Quotient[Sign(a) * Sign(b), x \div y, DivLimbs[x % y, y, 6, <<>>]]

\* x * y of two floats
FloatMul[x \in Floats, y \in Floats] ==
  IF x.sign = 0 \/ y.sign = 0 THEN FloatZero
  ELSE FloatRound[x.sign * y.sign, BigMul[x.m, y.m], x.e + y.e, FALSE]

\* sx * a * 2^e + sy * b * 2^e for sx, sy other than 0; c is the sign of a - b.
FloatSum[sx \in {-1, 1}, a \in Seq(Nat), sy \in {-1, 1}, b \in Seq(Nat), e \in Int, c \in {-1, 0, 1}] ==
  IF sx = sy THEN FloatRound[sx, BigAdd[a, b, 0], e, FALSE]
  ELSE IF c = 0 THEN FloatZero
  ELSE IF c > 0 THEN FloatRound[sx, Trim[BigSub[a, b, 0]], e, FALSE]
  ELSE FloatRound[sy, Trim[BigSub[b, a, 0]], e, FALSE]

FloatAligned[sx \in {-1, 1}, a \in Seq(Nat), sy \in {-1, 1}, b \in Seq(Nat), e \in Int] ==
  FloatSum[sx, a, sy, b, e, BigCmp[a, b]]

\* x + y of two floats (line 92)
FloatAdd[x \in Floats, y \in Floats] ==
  IF x.sign = 0 THEN y
  ELSE IF y.sign = 0 THEN x
  ELSE LET e == IF x.e < y.e THEN x.e ELSE y.e
       IN FloatAligned[x.sign, BigShl[x.m, x.e - e], y.sign, BigShl[y.m, y.e - e], e]

\* round(x, 2) in hundredths: the integer nearest to 100 times the exact
\* value of the double x, ties to even.
RoundHundredths[x \in Floats] ==
  IF x.sign = 0 THEN 0
  ELSE IF x.e >= 0 THEN x.sign * IntOfBig[BigShl[BigMulSmall[x.m, 100, 0], x.e]]
  ELSE x.sign * IntOfBig[RoundShift[BigMulSmall[x.m, 100, 0], -x.e, FALSE]]

\* Mutant: has_valid_categories is set for every category visited.
RECURSIVE CpiLoopMarksAll(_, _, _, _)
CpiLoopMarksAll(categories, i, total_spent, st) ==
  IF i > Len(categories) \/ st.raised THEN st
  ELSE LET user_spent == GetOrZero(categories[i].userSpent)
           base_price == GetOrZero(categories[i].basePrice)
       IN IF base_price.k = "str" THEN [st EXCEPT !.raised = TRUE]
          ELSE IF base_price.n > 0 /\ user_spent.n > 0
          THEN CpiLoopMarksAll(categories, i + 1, total_spent,
                 [st EXCEPT
                    !.cpi = FloatAdd[@,
                              FloatMul[FloatDivInt[user_spent.n, total_spent],
                                       FloatDivInt[user_spent.n - base_price.n,
                                                   base_price.n]]],
                    !.valid = TRUE])
          ELSE CpiLoopMarksAll(categories, i + 1, total_spent,
                 [st EXCEPT !.valid = TRUE])

\* The loop of lines 85-94 over the categories from index i on.
\* st = [raised, cpi (the float personal_cpi), valid (has_valid_categories)]:
\* lines 91-93 compute weight, change and personal_cpi += weight * change.
RECURSIVE CpiLoop(_, _, _, _)
CpiLoop(categories, i, total_spent, st) ==
  IF i > Len(categories) \/ st.raised THEN st
  ELSE LET user_spent == GetOrZero(categories[i].userSpent)
           base_price == GetOrZero(categories[i].basePrice)
       IN IF base_price.k = "str" THEN [st EXCEPT !.raised = TRUE]
          ELSE IF base_price.n > 0 /\ user_spent.n > 0
          THEN CpiLoop(categories, i + 1, total_spent,
                 [st EXCEPT
                    !.cpi = FloatAdd[@,
                              FloatMul[FloatDivInt[user_spent.n, total_spent],
                                       FloatDivInt[user_spent.n - base_price.n,
                                                   base_price.n]]],
                    !.valid = TRUE])
          ELSE CpiLoop(categories, i + 1, total_spent, st)

\* Mutant: the failure outcome keeps the initial personal_cpi of 0.0.
FailureWithZero(request_id) ==
  [id |-> request_id, personalCPI |-> Number(0), success |-> FALSE]

Failure(request_id) == [id |-> request_id, personalCPI |-> None, success |-> FALSE]

\* Mutant: no check of has_valid_categories.
OutcomeOfLoopNoValidCheck(request_id, st) ==
  [id |-> request_id, personalCPI |-> Number(RoundHundredths[FloatMul[st.cpi, FloatOfInt[100]]]),
   success |-> TRUE]

\* has_valid_categories after the loop decides between the outcome of
\* lines 96-102 and the one of lines 105-112.
OutcomeOfLoop(request_id, st) ==
  IF ~st.valid THEN Failure(request_id)
  ELSE [id |-> request_id,
        personalCPI |-> Number(RoundHundredths[FloatMul[st.cpi, FloatOfInt[100]]]),
        success |-> TRUE]

\* Lines 47-120, the code inside the try block once requests.get returned:
\* raised names the exception leaving the block ("none": the block returned
\* out).  response.json() of a body that is no JSON and arithmetic or
\* comparison on a str raise.
TryBlock(request_id, resp) ==
  IF resp.status # HTTP_200_OK
  THEN [raised |-> "none", out |-> Failure(request_id)]
  ELSE IF ~resp.json THEN [raised |-> "Exception", out |-> Failure(request_id)]
  ELSE LET categories == resp.categories
       IN IF categories = <<>>
          THEN [raised |-> "none", out |-> Failure(request_id)]
          ELSE LET s == SumSpent(categories, 1, 0)
               IN IF s.raised THEN [raised |-> "Exception", out |-> Failure(request_id)]
                  ELSE IF s.total = 0
                  THEN [raised |-> "none", out |-> Failure(request_id)]
                  ELSE LET st == CpiLoop(categories, 1, s.total,
                                   [raised |-> FALSE, cpi |-> FloatZero, valid |-> FALSE])
                       IN IF st.raised
                          THEN [raised |-> "Exception", out |-> Failure(request_id)]
                          ELSE [raised |-> "none", out |-> OutcomeOfLoop(request_id, st)]

\* Mutant: no except Exception clause.
ExceptExceptionNarrow(e) == FALSE

\* Line 121, except requests.exceptions.RequestException, and line 125,
\* except Exception: the exceptions each clause catches.
ExceptRequestException(e) == e = "RequestException"
ExceptException(e) == e \in {"RequestException", "Exception"}

NoResult == [id |-> 0, personalCPI |-> None, success |-> FALSE]

\* Mutant: no except clause, whatever is raised leaves the function.
calculate_personal_cpiUncaught(request_id, resp) ==
  LET b == IF resp.net # "ok"
           THEN [raised |-> "RequestException", out |-> Failure(request_id)]
           ELSE TryBlock(request_id, resp)
  IN IF b.raised = "none" THEN [exc |-> "none", value |-> b.out]
     ELSE [exc |-> b.raised, value |-> NoResult]

\* calculate_personal_cpi after the delay, on what requests.get produced,
\* resp = [net, status, json, categories]: the try block, the two except
\* clauses and the final return.  exc is the exception the call ends with
\* ("none": value is returned).
calculate_personal_cpi(request_id, resp) ==
  LET b == IF resp.net # "ok"
           THEN [raised |-> "RequestException", out |-> Failure(request_id)]
           ELSE TryBlock(request_id, resp)
  IN IF b.raised = "none" THEN [exc |-> "none", value |-> b.out]
     ELSE IF ExceptRequestException(b.raised) \/ ExceptException(b.raised)
     THEN [exc |-> "none", value |-> Failure(request_id)]
     ELSE [exc |-> b.raised, value |-> NoResult]

\* Lines 161-164: the body of the PUT.
Payload(result) == [personalCPI |-> result.personalCPI, success |-> result.success]

(***************************************************************************)
(* Inputs.                                                                 *)
(***************************************************************************)
FieldVals == {NullV, MissingV, StrV} \cup {NumV(n) : n \in (-NegVal)..MaxVal}
Categories == [userSpent : FieldVals, basePrice : FieldVals]
SeqsUpTo(S, n) == UNION {[1..k -> S] : k \in 0..n}

Http(status, json, cats) ==
  [net |-> "ok", status |-> status, json |-> json, categories |-> cats]
TransportError ==
  [net |-> "error", status |-> 0, json |-> FALSE, categories |-> <<>>]

\* Two data sets with known results: A(50, 50), B(50, 25), and a single
\* category (150, 100).
ExampleTwo ==
  <<[userSpent |-> NumV(50), basePrice |-> NumV(50)],
    [userSpent |-> NumV(50), basePrice |-> NumV(25)]>>
ExampleOne == <<[userSpent |-> NumV(150), basePrice |-> NumV(100)]>>

\* Every response the calculation is checked on.
CalcResponses ==
  {TransportError, Http(HTTP_500_INTERNAL_SERVER_ERROR, FALSE, <<>>),
   Http(HTTP_200_OK, FALSE, <<>>),
   Http(HTTP_200_OK, TRUE, ExampleTwo), Http(HTTP_200_OK, TRUE, ExampleOne)}
  \cup {Http(HTTP_200_OK, TRUE, c) : c \in SeqsUpTo(Categories, MaxCats)}


\* What the collaborator may answer to the GET of a running task.
RunResponses ==
  {TransportError,
   Http(HTTP_500_INTERNAL_SERVER_ERROR, FALSE, <<>>),
   Http(HTTP_200_OK, TRUE, <<>>),
   Http(HTTP_200_OK, TRUE, <<[userSpent |-> NumV(0), basePrice |-> NumV(1)]>>),
   Http(HTTP_200_OK, TRUE, <<[userSpent |-> NumV(1), basePrice |-> NullV]>>),
   Http(HTTP_200_OK, TRUE, <<[userSpent |-> StrV, basePrice |-> NumV(1)]>>),
   Http(HTTP_200_OK, TRUE, <<[userSpent |-> NumV(150), basePrice |-> NumV(100)]>>)}

\* What the collaborator may answer to the PUT: a status, or 0 for a
\* transport error or timeout (requests.put raises).
PutAnswers == {HTTP_200_OK, HTTP_500_INTERNAL_SERVER_ERROR, 0}

\* request.data of a trigger request.
Ids == {1, 2}
Body(data, mapping, hasPk, hasToken, pk, token) ==
  [data |-> data, mapping |-> mapping, hasPk |-> hasPk, hasToken |-> hasToken,
   pk |-> pk, token |-> token]
EmptyBody == Body(FALSE, TRUE, FALSE, FALSE, 0, "")
ValidBody(i) == Body(TRUE, TRUE, TRUE, TRUE, i, AUTH_TOKEN)
Bodies ==
  {EmptyBody,
   Body(TRUE, FALSE, FALSE, FALSE, 0, ""),
   Body(TRUE, TRUE, FALSE, TRUE, 0, AUTH_TOKEN),
   Body(TRUE, TRUE, TRUE, FALSE, 1, ""),
   Body(TRUE, TRUE, TRUE, TRUE, 1, "wrong")}
  \cup {ValidBody(i) : i \in Ids}

\* The requests the view is called with: @api_view(['POST', 'OPTIONS']).
HttpRequests ==
  {[method |-> "POST", body |-> b] : b \in Bodies}
    \cup {[method |-> "OPTIONS", body |-> b] : b \in {EmptyBody, ValidBody(1)}}

(***************************************************************************)
(* State.                                                                  *)
(***************************************************************************)
VARIABLES
  req,      \* handler thread of each trigger request: [pc, task, status]
  tasks,    \* futures in submission order:
            \*   [id, state, resp, exc, result, cbreg, cbdone]
  queue,    \* executor._work_queue: indices of tasks
  shut,     \* executor shutdown: "open", "draining", "closed"
  wpc,      \* position of the worker thread
  wtask,    \* task the worker holds (0: none)
  dtask,    \* task the draining shutdown holds (0: none)
  gets,     \* GET .../<id>/async-data calls issued, in order
  puts,     \* PUT .../<id>/async-result calls issued, in order
  cresp,    \* calculation check: the response under test
  cout,     \* calculation check: the outcome returned
  cpay,     \* calculation check: the payload built from it
  cpc       \* calculation check: position

runvars == <<req, tasks, queue, shut, wpc, wtask, dtask, gets, puts>>
calcvars == <<cresp, cout, cpay, cpc>>
vars ==
  <<req, tasks, queue, shut, wpc, wtask, dtask, gets, puts, cresp, cout, cpay, cpc>>

Requests == 1..MaxReq
\* Line 206: request.data of a handler that has not read its request yet.
NoBody == EmptyBody
NoResponse == [net |-> "none", status |-> 0, json |-> FALSE, categories |-> <<>>]
NoPayload == [personalCPI |-> None, success |-> FALSE]

InitRun ==
  /\ req = [r \in Requests |-> [pc |-> "new", task |-> 0, status |-> 0, method |-> "",
                            body |-> NoBody]]
  /\ tasks = <<>>
  /\ queue = <<>>
  /\ shut = "open"
  /\ wpc = "idle"
  /\ wtask = 0
  /\ dtask = 0
  /\ gets = <<>>
  /\ puts = <<>>

Init ==
  /\ InitRun
  /\ cresp = NoResponse
  /\ cout = NoResult
  /\ cpay = NoPayload
  /\ cpc = "off"

\* Mutant: a cancelled future does not count as done.
FutureDoneFinishedOnly(state) == state = "FINISHED"

\* Future._state values after which add_done_callback calls fn at once.
FutureDone(state) == state \in {"CANCELLED", "FINISHED"}

(***************************************************************************)
(* process_request.                                                        *)
(***************************************************************************)
\* Lines 206-227: the status of the early returns, 0 when the request
\* passes.  On a body that is not a mapping, request.data.keys() at line 213
\* raises AttributeError, which line 244 turns into a 500.
Validate(body) ==
  IF ~body.data THEN HTTP_400_BAD_REQUEST
  ELSE IF ~body.mapping THEN HTTP_500_INTERNAL_SERVER_ERROR
  ELSE IF ~body.hasPk \/ ~body.hasToken THEN HTTP_400_BAD_REQUEST
  ELSE IF body.token # AUTH_TOKEN THEN HTTP_401_UNAUTHORIZED
  ELSE 0

\* Mutant: an identifier that is already queued is not queued again.
SubmitOncePerId(q, t, id) ==
  IF \E i \in 1..Len(q) : tasks[q[i]].id = id THEN q ELSE Append(q, t)

\* Line 230, executor.submit: the work item of the new future t, for request
\* identifier id, is put behind the queued ones, whatever they are.
Submit(q, t, id) == Append(q, t)

\* Lines 191-230 up to executor.submit.  An OPTIONS request is answered 200
\* at line 197 before its body is read.  Handler threads are
\* interchangeable, so they are numbered in the order in which they start.
\* submit takes the shutdown lock (it waits while a shutdown drains the
\* queue) and raises RuntimeError once the executor is shut down, which
\* line 244 turns into a 500.
Answered(rq, status) ==
  [pc |-> "done", task |-> 0, status |-> status, method |-> rq.method,
   body |-> rq.body]

Receive(r) ==
  /\ req[r].pc = "new"
  /\ \A q \in Requests : q < r => req[q].pc # "new"
  /\ \E rq \in HttpRequests :
       LET v == Validate(rq.body)
       IN IF rq.method = "OPTIONS"
          THEN /\ req' = [req EXCEPT ![r] = Answered(rq, HTTP_200_OK)]
               /\ UNCHANGED <<tasks, queue>>
          ELSE IF v # 0
          THEN /\ req' = [req EXCEPT ![r] = Answered(rq, v)]
               /\ UNCHANGED <<tasks, queue>>
          ELSE /\ shut # "draining"
               /\ IF shut = "closed"
                  THEN /\ req' = [req EXCEPT ![r] =
                                    Answered(rq, HTTP_500_INTERNAL_SERVER_ERROR)]
                       /\ UNCHANGED <<tasks, queue>>
                  ELSE /\ tasks' = Append(tasks,
                                     [id |-> rq.body.pk, state |-> "PENDING",
                                      resp |-> NoResponse, exc |-> "none",
                                      result |-> NoResult,
                                      cbreg |-> FALSE, cbdone |-> FALSE])
                       /\ queue' = Submit(queue, Len(tasks) + 1, rq.body.pk)
                       /\ req' = [req EXCEPT ![r] =
                                    [pc |-> "submitted", task |-> Len(tasks) + 1,
                                     status |-> 0, method |-> rq.method,
                                     body |-> rq.body]]
  /\ UNCHANGED <<shut, wpc, wtask, dtask, gets, puts, calcvars>>

\* Line 231, task.add_done_callback(result_callback): appended while the
\* future is not done, otherwise called at once by this thread.
AddDoneCallback(r) ==
  /\ req[r].pc = "submitted"
  /\ LET t == req[r].task
     IN IF FutureDone(tasks[t].state)
        THEN /\ req' = [req EXCEPT ![r].pc = "callback"]
             /\ UNCHANGED tasks
        ELSE /\ tasks' = [tasks EXCEPT ![t].cbreg = TRUE]
             /\ req' = [req EXCEPT ![r].pc = "respond"]
  /\ UNCHANGED <<queue, shut, wpc, wtask, dtask, gets, puts, calcvars>>

\* Mutant: the callback reports whatever task.result() did.
CallbackReportsAlways(task) == TRUE

\* result_callback, lines 143-153: task.result() raises CancelledError for
\* a cancelled future and the task's exception for a failed one; the
\* callback then returns before the report.
CallbackReports(task) == task.state = "FINISHED" /\ task.exc = "none"

\* Mutant: the PUT is repeated when it was not answered 200.
PutAttemptsRetry(answer) == IF answer = HTTP_200_OK THEN 1 ELSE 2

\* Lines 171-180: the number of PUTs made for one outcome, whatever the
\* answer (a status other than 200 and an exception are only printed).
PutAttempts(answer) == 1

\* Mutant: the outcome is kept in one place shared by all tasks, the report
\* carries the one of the task submitted last.
PutRecordLatest(t, by, answer) ==
  [task |-> t, id |-> tasks[Len(tasks)].result.id,
   payload |-> Payload(tasks[Len(tasks)].result),
   by |-> by, answer |-> answer]

\* Lines 156-171, run by thread `by` for task t (0: a thread of the
\* executor's side, the worker or the one that shuts down; r: handler r).
PutRecord(t, by, answer) ==
  [task |-> t, id |-> tasks[t].result.id, payload |-> Payload(tasks[t].result),
   by |-> by, answer |-> answer]

RECURSIVE Repeat(_, _)
Repeat(x, n) == IF n = 0 THEN <<>> ELSE <<x>> \o Repeat(x, n - 1)

result_callback(t, by) ==
  /\ IF CallbackReports(tasks[t])
     THEN \E answer \in PutAnswers :
            puts' = puts \o Repeat(PutRecord(t, by, answer), PutAttempts(answer))
     ELSE UNCHANGED puts
  /\ tasks' = [tasks EXCEPT ![t].cbdone = TRUE]

\* The callback called at once by add_done_callback, in the handler thread.
InlineCallback(r) ==
  /\ req[r].pc = "callback"
  /\ result_callback(req[r].task, r)
  /\ req' = [req EXCEPT ![r].pc = "respond"]
  /\ UNCHANGED <<queue, shut, wpc, wtask, dtask, gets, calcvars>>

\* Lines 233-243: the acknowledgment.
Respond(r) ==
  /\ req[r].pc = "respond"
  /\ req' = [req EXCEPT ![r] = [@ EXCEPT !.pc = "done", !.status = HTTP_200_OK]]
  /\ UNCHANGED <<tasks, queue, shut, wpc, wtask, dtask, gets, puts, calcvars>>


(***************************************************************************)
(* The worker thread of ThreadPoolExecutor(max_workers=1).                 *)
(***************************************************************************)
\* Mutant: the newest item is taken first.
QueueGetLifo(q) == [item |-> q[Len(q)], rest |-> SubSeq(q, 1, Len(q) - 1)]

\* Mutant: the GET is made before the delay.
StagesFetchFirst == <<"fetch", "delay", "calc">>

\* Lines 32-105: the order of the stages of calculate_personal_cpi, the
\* delay, the GET and the calculation on its answer.
Stages == <<"delay", "fetch", "calc">>
StageAfter(s) == Stages[(CHOOSE i \in 1..Len(Stages) : Stages[i] = s) + 1]

\* queue.get on executor._work_queue, a FIFO queue: the item and the rest.
QueueGet(q) == [item |-> Head(q), rest |-> Tail(q)]

\* Mutant: the future is not marked as running.
set_running_keeps(state) == state

\* Future.set_running_or_notify_cancel in _WorkItem.run: the state of the
\* future once the worker has taken its work item.
set_running(state) == IF state = "PENDING" THEN "RUNNING" ELSE state

\* _worker: work_queue.get() hands the head of the queue to the worker.  No
\* lock is held between this and _WorkItem.run.
WorkerTake ==
  /\ wpc = "idle"
  /\ queue # <<>>
  /\ queue' = QueueGet(queue).rest
  /\ wtask' = QueueGet(queue).item
  /\ wpc' = "taken"
  /\ UNCHANGED <<req, tasks, shut, dtask, gets, puts, calcvars>>

\* _WorkItem.run skips a future that was cancelled, otherwise the future is
\* RUNNING and calculate_personal_cpi starts with its delay.
WorkerRun ==
  /\ wpc = "taken"
  /\ IF tasks[wtask].state = "PENDING"
     THEN /\ tasks' = [tasks EXCEPT ![wtask].state = set_running(@)]
          /\ wpc' = Stages[1]
          /\ UNCHANGED wtask
     ELSE /\ wpc' = "idle"
          /\ wtask' = 0
          /\ UNCHANGED tasks
  /\ UNCHANGED <<req, queue, shut, dtask, gets, puts, calcvars>>

\* Lines 32-33: time.sleep(delay).
WorkerDelay ==
  /\ wpc = "delay"
  /\ wpc' = StageAfter("delay")
  /\ UNCHANGED <<req, tasks, queue, shut, wtask, dtask, gets, puts, calcvars>>

\* Lines 37-46: the GET, answered or failed by the collaborator.
WorkerFetch ==
  /\ wpc = "fetch"
  /\ \E resp \in RunResponses :
       tasks' = [tasks EXCEPT ![wtask].resp = resp]
  /\ gets' = Append(gets, [task |-> wtask, id |-> tasks[wtask].id])
  /\ wpc' = StageAfter("fetch")
  /\ UNCHANGED <<req, queue, shut, wtask, dtask, puts, calcvars>>

\* After Future.set_result the worker invokes the callbacks registered so far.
AfterSetResult(cbreg) == IF cbreg THEN "callback" ELSE "idle"

\* What calculate_personal_cpi gives for the identifiers and the responses
\* of the runs, computed once: <<id, response, [exc, value]>>.
RunOutcomes ==
  {<<id, resp, calculate_personal_cpi(id, resp)>> : id \in Ids, resp \in RunResponses}
RunOutcome(id, resp) ==
  (CHOOSE o \in RunOutcomes : o[1] = id /\ o[2] = resp)[3]

\* Lines 47-135 on the response, then Future.set_result with the returned
\* outcome (set_exception with an exception that left the function).
WorkerCalculate ==
  /\ wpc = "calc"
  /\ LET r == RunOutcome(tasks[wtask].id, tasks[wtask].resp)
     IN tasks' = [tasks EXCEPT ![wtask].result = r.value,
                               ![wtask].exc = r.exc,
                               ![wtask].state = "FINISHED"]
  /\ wpc' = AfterSetResult(tasks[wtask].cbreg)
  /\ wtask' = IF tasks[wtask].cbreg THEN wtask ELSE 0
  /\ UNCHANGED <<req, queue, shut, dtask, gets, puts, calcvars>>

\* Mutant: a report that was not answered 200 ends the worker thread.
AfterCallbackDies(answer) == IF answer = HTTP_200_OK THEN "idle" ELSE "exited"

\* Where the worker goes after result_callback returned or raised:
\* _invoke_callbacks logs an exception of the callback, and the worker
\* loops.
AfterCallback(answer) == "idle"

\* result_callback invoked by the worker.
WorkerCallback ==
  /\ wpc = "callback"
  /\ result_callback(wtask, 0)
  /\ wpc' = AfterCallback(IF puts' = puts THEN HTTP_200_OK
                          ELSE puts'[Len(puts')].answer)
  /\ wtask' = 0
  /\ UNCHANGED <<req, queue, shut, dtask, gets, calcvars>>

\* The worker leaves its loop on the None that shutdown puts behind the
\* queued work.
WorkerExit ==
  /\ wpc = "idle"
  /\ queue = <<>>
  /\ shut = "closed"
  /\ wpc' = "exited"
  /\ UNCHANGED <<req, tasks, queue, shut, wtask, dtask, gets, puts, calcvars>>

(***************************************************************************)
(* Executor shutdown: shutdown(cancel_futures=...) or interpreter exit.    *)
(***************************************************************************)
Shutdown ==
  /\ shut = "open"
  /\ \E cancel_futures \in BOOLEAN :
       shut' = IF cancel_futures THEN "draining" ELSE "closed"
  /\ UNCHANGED <<req, tasks, queue, wpc, wtask, dtask, gets, puts, calcvars>>

\* Future.cancel: a future that is running or finished is left as it is.
cancel(state) ==
  IF state \in {"RUNNING", "FINISHED"} THEN state ELSE "CANCELLED"

\* One turn of the drain loop, first half: work_queue.get_nowait() removes
\* the head work item.  The shutdown lock stops submit only.
DrainTake ==
  /\ shut = "draining"
  /\ dtask = 0
  /\ queue # <<>>
  /\ queue' = QueueGet(queue).rest
  /\ dtask' = QueueGet(queue).item
  /\ UNCHANGED <<req, tasks, shut, wpc, wtask, gets, puts, calcvars>>

\* Second half, work_item.future.cancel(): under the future's condition a
\* pending future becomes CANCELLED; the condition is released before the
\* callbacks are invoked.  A future that is running or finished is left as
\* it is and no callback is invoked.
DrainCancel ==
  /\ dtask # 0
  /\ tasks[dtask].state # "CANCELLED"
  /\ tasks' = [tasks EXCEPT ![dtask].state = cancel(@)]
  /\ dtask' = IF cancel(tasks[dtask].state) = "CANCELLED" THEN dtask ELSE 0
  /\ UNCHANGED <<req, queue, shut, wpc, wtask, gets, puts, calcvars>>

\* The end of Future.cancel(), _invoke_callbacks in the thread that shuts
\* down: result_callback is called when it was registered before the
\* future was cancelled (it returns at line 148); a callback added later
\* is called by add_done_callback itself.
DrainCallback ==
  /\ dtask # 0
  /\ tasks[dtask].state = "CANCELLED"
  /\ IF tasks[dtask].cbreg THEN result_callback(dtask, 0)
     ELSE UNCHANGED <<tasks, puts>>
  /\ dtask' = 0
  /\ UNCHANGED <<req, queue, shut, wpc, wtask, gets, calcvars>>

\* get_nowait() raises queue.Empty: the loop ends, the executor is shut down.
DrainEnd ==
  /\ shut = "draining"
  /\ dtask = 0
  /\ queue = <<>>
  /\ shut' = "closed"
  /\ UNCHANGED <<req, tasks, queue, wpc, wtask, dtask, gets, puts, calcvars>>

Next ==
  \/ \E r \in Requests : Receive(r)
  \/ \E r \in Requests : AddDoneCallback(r)
  \/ \E r \in Requests : InlineCallback(r)
  \/ \E r \in Requests : Respond(r)
  \/ WorkerTake
  \/ WorkerRun
  \/ WorkerDelay
  \/ WorkerFetch
  \/ WorkerCalculate
  \/ WorkerCallback
  \/ WorkerExit
  \/ Shutdown
  \/ DrainTake
  \/ DrainCancel
  \/ DrainCallback
  \/ DrainEnd

Spec == Init /\ [][Next]_vars


\* The scheduler runs every started thread: the worker, a handler past its
\* submit, and a shutdown that is draining the queue.  Arrivals of requests
\* and the shutdown itself are up to the environment.
Worker ==
  WorkerTake \/ WorkerRun \/ WorkerDelay \/ WorkerFetch \/ WorkerCalculate
    \/ WorkerCallback \/ WorkerExit
Handler(r) == AddDoneCallback(r) \/ InlineCallback(r) \/ Respond(r)
Drain == DrainTake \/ DrainCancel \/ DrainCallback \/ DrainEnd

FairSpec ==
  /\ Init
  /\ [][Next]_vars
  /\ WF_vars(Worker)
  /\ \A r \in Requests : WF_vars(Handler(r))
  /\ WF_vars(Drain)

(***************************************************************************)
(* The calculation alone: calculate_personal_cpi applied to one response,  *)
(* and the payload result_callback builds from the outcome.                *)
(***************************************************************************)
CalcInit ==
  /\ InitRun
  /\ cresp \in CalcResponses
  /\ cout = NoResult
  /\ cpay = NoPayload
  /\ cpc = "start"

Calculate ==
  /\ cpc = "start"
  /\ \E id \in Ids :
       LET r == calculate_personal_cpi(id, cresp)
       IN /\ cout' = r.value
          /\ cpc' = IF r.exc = "none" THEN "returned" ELSE "raised"
  /\ UNCHANGED <<cresp, cpay, runvars>>

BuildPayload ==
  /\ cpc = "returned"
  /\ cpay' = Payload(cout)
  /\ cpc' = "reported"
  /\ UNCHANGED <<cresp, cout, runvars>>

CalcNext == Calculate \/ BuildPayload

CalcSpec == CalcInit /\ [][CalcNext]_vars


(***************************************************************************)
(* Properties.                                                             *)
(***************************************************************************)
TaskIds == 1..Len(tasks)
PutsOf(t) == Cardinality({i \in 1..Len(puts) : puts[i].task = t})
GetsOf(t) == Cardinality({i \in 1..Len(gets) : gets[i].task = t})
FailureBody == [personalCPI |-> None, success |-> FALSE]

\* How many times task t is in the queue, and how many hold it before it
\* runs or is cancelled: the queue, the worker between work_queue.get and
\* _WorkItem.run, the shutdown between get_nowait and Future.cancel.
TimesQueued(t) == Cardinality({i \in 1..Len(queue) : queue[i] = t})
Holders(t) ==
  TimesQueued(t) + (IF wtask = t /\ wpc = "taken" THEN 1 ELSE 0)
                 + (IF dtask = t /\ tasks[t].state # "CANCELLED" THEN 1 ELSE 0)

\* Every PUT logged for task t is addressed to id and carries body.
PutsCarry(t, id, body) ==
  \A i \in 1..Len(puts) :
    puts[i].task = t => puts[i].id = id /\ puts[i].payload = body

\* The data of a response as the specification reads it: null and missing
\* fields count as 0, a category is valid when both numbers are positive.
NumOf(v) == IF v.k = "num" THEN v.n ELSE 0
RECURSIVE TotalSpentOf(_)
TotalSpentOf(cats) ==
  IF cats = <<>> THEN 0 ELSE NumOf(Head(cats).userSpent) + TotalSpentOf(Tail(cats))
ValidCategory(c) ==
  /\ c.userSpent.k = "num" /\ c.basePrice.k = "num"
  /\ c.basePrice.n > 0 /\ c.userSpent.n > 0
SpentNumeric(cats) == \A i \in 1..Len(cats) : cats[i].userSpent.k # "str"
AllNumeric(cats) ==
  \A i \in 1..Len(cats) : cats[i].userSpent.k # "str" /\ cats[i].basePrice.k # "str"
GotData(resp) == resp.net = "ok" /\ resp.status = HTTP_200_OK /\ resp.json
FetchFailed(resp) ==
  resp.net = "error" \/ (resp.net = "ok" /\ resp.status # HTTP_200_OK)
NoResultData(resp) ==
  /\ GotData(resp)
  /\ \/ resp.categories = <<>>
     \/ SpentNumeric(resp.categories) /\ TotalSpentOf(resp.categories) = 0
     \/ /\ AllNumeric(resp.categories)
        /\ \A i \in 1..Len(resp.categories) : ~ValidCategory(resp.categories[i])
HasValidCategory(resp) ==
  GotData(resp) /\ \E i \in 1..Len(resp.categories) : ValidCategory(resp.categories[i])

\* An exception was raised inside the calculation part of task t.
CalcRaised(t) ==
  tasks[t].resp.net = "ok" /\ TryBlock(tasks[t].id, tasks[t].resp).raised # "none"

\* Thread positions inside a stage of task t.
WorkerInStage(t) == wtask = t /\ wpc \in {"delay", "fetch", "calc", "callback"}
HandlerInReport(r, t) ==
  req[r].pc = "callback" /\ req[r].task = t /\ CallbackReports(tasks[t])

\* C1 as stated: the report of every task whose completion was handled has
\* been issued exactly once, whatever way the task ended, cancellation
\* included.
C1_ReportedExactlyOnceAlways ==
  \A t \in TaskIds :
    /\ PutsOf(t) <= 1
    /\ tasks[t].cbdone => PutsOf(t) = 1

\* C1 amended: never more than one report per task; once the completion of a
\* task was handled, exactly one report was issued if the task ran and none
\* if it was cancelled.
C1_ReportedOnceUnlessCancelled ==
  \A t \in TaskIds :
    /\ PutsOf(t) <= 1
    /\ PutsOf(t) = 1 => tasks[t].state = "FINISHED"
    /\ tasks[t].cbdone =>
         PutsOf(t) = (IF tasks[t].state = "CANCELLED" THEN 0 ELSE 1)

C1_Witness ==
  \E t, u \in TaskIds :
    /\ tasks[t].state = "FINISHED" /\ tasks[t].resp = TransportError
    /\ tasks[t].cbdone /\ PutsOf(t) = 1
    /\ tasks[u].state = "CANCELLED" /\ tasks[u].cbdone /\ PutsOf(u) = 0

\* C2: no thread is inside a stage of one task while another thread is
\* inside a stage of a different task.
C2_NoTwoTasksConcurrent ==
  /\ \A r \in Requests : \A t, u \in TaskIds :
       ~(t # u /\ WorkerInStage(t) /\ HandlerInReport(r, u))
  /\ \A r, q \in Requests : \A t, u \in TaskIds :
       ~(t # u /\ HandlerInReport(r, t) /\ HandlerInReport(q, u))

\* C3: the GETs are issued in submission order, at most one per task, each
\* for the id the task was submitted with; a task that ran has exactly one;
\* and no task begins running while an earlier one is still queued.
C3_FetchFifoOnce ==
  /\ \A i, j \in 1..Len(gets) : i < j => gets[i].task < gets[j].task
  /\ \A i \in 1..Len(gets) : gets[i].id = tasks[gets[i].task].id
  /\ \A t \in TaskIds :
       (tasks[t].state = "FINISHED" \/ (wtask = t /\ wpc \in {"calc", "callback"}))
         => GetsOf(t) = 1
  /\ \A t, u \in TaskIds :
       (t < u /\ tasks[u].state \in {"RUNNING", "FINISHED"})
         => TimesQueued(t) = 0

C3_Witness ==
  /\ Len(gets) = 2
  /\ \A t \in TaskIds : tasks[t].state = "FINISHED"
  /\ Len(tasks) = 2

\* C4: once the completion of a task whose fetch failed or whose data gave
\* no result was handled, exactly one report was sent for its identifier,
\* with body {success: false, personalCPI: null}; never more than one.
C4_FailureReportedOnce ==
  \A t \in TaskIds :
    (FetchFailed(tasks[t].resp) \/ NoResultData(tasks[t].resp)) =>
      /\ PutsOf(t) <= 1
      /\ PutsCarry(t, tasks[t].id, FailureBody)
      /\ tasks[t].cbdone => PutsOf(t) = 1

C4_Witness ==
  \E t, u \in TaskIds :
    /\ FetchFailed(tasks[t].resp) /\ tasks[t].resp.net = "ok"
    /\ tasks[t].cbdone /\ PutsOf(t) = 1
    /\ NoResultData(tasks[u].resp) /\ tasks[u].resp.categories # <<>>
    /\ tasks[u].cbdone /\ PutsOf(u) = 1

\* C5 as stated: a task in whose calculation an exception was raised gets no
\* report.
C5_NoReportAfterCalcError ==
  \A t \in TaskIds : (CalcRaised(t) /\ tasks[t].cbdone) => PutsOf(t) = 0

\* C5 amended: an exception raised in the calculation is caught inside
\* calculate_personal_cpi, which returns the failure outcome; the task
\* finishes without exception and exactly one report with
\* {success: false, personalCPI: null} is sent, as for a fetch failure.
C5_CalcErrorReportsFailure ==
  \A t \in TaskIds :
    (CalcRaised(t) /\ tasks[t].state = "FINISHED") =>
      /\ tasks[t].exc = "none"
      /\ tasks[t].result = Failure(tasks[t].id)
      /\ PutsCarry(t, tasks[t].id, FailureBody)
      /\ tasks[t].cbdone => PutsOf(t) = 1

C5_Witness ==
  \E t \in TaskIds : CalcRaised(t) /\ tasks[t].cbdone /\ PutsOf(t) = 1

\* C6: a handler thread never executes a stage of a task: it is never
\* inside result_callback's report.
C6_HandlerNeverRunsStage ==
  \A r \in Requests : \A t \in TaskIds : ~HandlerInReport(r, t)

\* C7 as stated: once the executor is shut down, no queued task starts
\* running.
C7_ShutdownDropsQueued ==
  [][shut # "open" =>
       \A t \in TaskIds :
         tasks[t].state = "PENDING" => tasks'[t].state # "RUNNING"]_vars

\* C7 amended: a task whose future is cancelled is dropped: it stays
\* cancelled, and no GET, no calculation and no PUT is ever performed for it.
C7_CancelledIsDropped ==
  /\ [](\A t \in TaskIds :
          tasks[t].state = "CANCELLED" =>
            /\ GetsOf(t) = 0 /\ PutsOf(t) = 0
            /\ tasks[t].resp = NoResponse /\ tasks[t].result = NoResult
            /\ wtask # t)
  /\ [][\A t \in TaskIds :
          tasks[t].state = "CANCELLED" => tasks'[t].state = "CANCELLED"]_vars

C7_Witness ==
  \E t, u \in TaskIds :
    /\ tasks[t].state = "CANCELLED" /\ tasks[t].cbdone
    /\ tasks[u].state = "FINISHED" /\ PutsOf(u) = 1
    /\ req[1].pc = "done" /\ req[2].pc = "done"

\* The report of task t was answered with another status than 200 or raised.
ReportFailed(t) ==
  \E i \in 1..Len(puts) : puts[i].task = t /\ puts[i].answer # HTTP_200_OK

\* C8: no report is repeated, and under a fair scheduler, once the report of
\* a task has failed, every task submitted after it still gets fetched and
\* reported (or is cancelled by a shutdown).
C8_ReportFailureIsolated ==
  /\ [](\A t \in TaskIds : PutsOf(t) <= 1)
  /\ \A u \in Requests :
       (u \in TaskIds /\ \E t \in TaskIds : t < u /\ ReportFailed(t))
         ~> (/\ u \in TaskIds
             /\ tasks[u].cbdone
             /\ \/ tasks[u].state = "CANCELLED"
                \/ GetsOf(u) = 1 /\ PutsOf(u) = 1)

C8_Witness ==
  \E t, u \in TaskIds :
    /\ t < u /\ ReportFailed(t)
    /\ tasks[u].cbdone /\ GetsOf(u) = 1 /\ PutsOf(u) = 1

SuccessIffPresent(o) ==
  /\ o.success <=> (o.personalCPI.present /\ HasValidCategory(cresp))
  /\ ~o.success => o.personalCPI = None

\* C9: a returned outcome, and the payload built from it, has success true
\* exactly when personalCPI is present, and then the data held a valid
\* category; otherwise success is false and personalCPI is absent.
C9_SuccessIffIndexPresent ==
  /\ cpc \in {"returned", "reported"} => SuccessIffPresent(cout)
  /\ cpc = "reported" =>
       /\ SuccessIffPresent(cpay)
       /\ cpay.success = cout.success /\ cpay.personalCPI = cout.personalCPI

C9_Witness ==
  /\ cpc = "reported" /\ cpay.success /\ cpay.personalCPI.present
  /\ HasValidCategory(cresp) /\ Len(cresp.categories) = 2
  /\ ~ValidCategory(cresp.categories[1])

\* C10: data with no category, with a total spend of 0, or with no valid
\* category gives success false and no personalCPI.
C10_NoResultIsFailure ==
  (cpc \in {"returned", "reported"} /\ NoResultData(cresp)) =>
     cout.success = FALSE /\ cout.personalCPI = None

C10_Witness ==
  /\ cpc = "returned" /\ NoResultData(cresp)
  /\ Len(cresp.categories) = 2
  /\ TotalSpentOf(cresp.categories) # 0
  /\ ~cout.success


\* A fraction in lowest terms.
RECURSIVE Gcd(_, _)
Gcd(a, b) == IF b = 0 THEN a ELSE Gcd(b, a % b)
Lowest(f) == LET g == Gcd(Abs(f[1]), Abs(f[2])) IN <<f[1] \div g, f[2] \div g>>

\* The sum of C11 as an exact fraction: over the valid categories,
\* (userSpent / total) * ((userSpent - basePrice) / basePrice), with total
\* the spend of all categories.
RECURSIVE WeightedChange(_, _)
WeightedChange(cats, total) ==
  IF cats = <<>> THEN <<0, 1>>
  ELSE LET c == Head(cats)
           rest == WeightedChange(Tail(cats), total)
           term == Lowest(<<c.userSpent.n * (c.userSpent.n - c.basePrice.n),
                            total * c.basePrice.n>>)
       IN IF ValidCategory(c) /\ total # 0
          THEN Lowest(<<rest[1] * term[2] + term[1] * rest[2], rest[2] * term[2]>>)
          ELSE rest

\* v hundredths is 100 * f rounded to 2 decimals: no hundredth is nearer.
IsRounded(v, f) == 2 * Abs(v * f[2] - 10000 * f[1]) <= Abs(f[2])

\* C11: with at least one valid category (numeric data, total spend not 0)
\* personalCPI is 100 times the weighted change, rounded to 2 decimals, the
\* weights taken over the spend of all categories; the two examples give
\* 50.00.
C11_IndexIsWeightedChange ==
  cpc \in {"returned", "reported"} =>
    /\ (/\ HasValidCategory(cresp)
        /\ AllNumeric(cresp.categories)
        /\ TotalSpentOf(cresp.categories) # 0)
         => /\ cout.success
            /\ cout.personalCPI.present
            /\ IsRounded(cout.personalCPI.val,
                 WeightedChange(cresp.categories, TotalSpentOf(cresp.categories)))
    /\ (GotData(cresp) /\ cresp.categories \in {ExampleOne, ExampleTwo})
         => cout.personalCPI = Number(5000)

C11_Witness ==
  /\ cpc = "returned"
  /\ GotData(cresp)
  /\ cresp.categories =
       <<[userSpent |-> NumV(1), basePrice |-> NumV(2)],
         [userSpent |-> NumV(2), basePrice |-> NumV(0)]>>
  /\ cout.personalCPI = Number(-1667)

\* A failure of task t has happened: its GET failed, it finished without a
\* result or on an exception of the calculation, or its report failed.
FailureHappened(t) ==
  \/ FetchFailed(tasks[t].resp)
  \/ tasks[t].state = "FINISHED" /\ (NoResultData(tasks[t].resp) \/ CalcRaised(t))
  \/ ReportFailed(t)

\* C12: when a failure of the task of an accepted request has happened, the
\* handler of that request has already returned its acknowledgment.
C12_AckBeforeFailure ==
  \A r \in Requests :
    (req[r].task \in TaskIds /\ FailureHappened(req[r].task))
      => req[r].pc = "done" /\ req[r].status = HTTP_200_OK

\* An exception was raised in the fetch or in the calculation of task t.
TaskErred(t) ==
  /\ tasks[t].state = "FINISHED"
  /\ tasks[t].resp.net = "error" \/ CalcRaised(t)

\* The outcome of task t is the one its own identifier and response give.
OwnOutcome(t) ==
  tasks[t].result = RunOutcome(tasks[t].id, tasks[t].resp).value

\* C13: no exception leaves calculate_personal_cpi, so every finished future
\* holds a returned outcome; the worker ends only on a shutdown, with the
\* queue empty; and under a fair scheduler every task submitted behind one
\* that raised is still dequeued and run (or cancelled by a shutdown), with
\* the outcome its own identifier and response give.
C13_ErrorsStayInsideTask ==
  /\ [](\A t \in TaskIds : tasks[t].state = "FINISHED" => tasks[t].exc = "none")
  /\ [](wpc = "exited" => shut = "closed" /\ queue = <<>>)
  /\ \A u \in Requests :
       (u \in TaskIds /\ \E t \in TaskIds : t < u /\ TaskErred(t))
         ~> (/\ u \in TaskIds
             /\ \/ tasks[u].state = "CANCELLED"
                \/ /\ tasks[u].state = "FINISHED"
                   /\ GetsOf(u) = 1
                   /\ OwnOutcome(u))

C13_Witness ==
  \E t, u \in TaskIds :
    /\ t < u /\ CalcRaised(t) /\ tasks[t].state = "FINISHED"
    /\ tasks[u].state = "FINISHED" /\ tasks[u].result.success
    /\ wpc # "exited"

\* C14: while a task is in its delay or about to fetch, no GET was made for
\* it; the calculation runs on the answer of the task's one GET; a task has
\* an outcome only after that; and a report is sent only for a finished
\* task, after its GET, carrying the outcome calculate_personal_cpi returned.
C14_StagesInOrder ==
  \A t \in TaskIds :
    /\ (wtask = t /\ wpc \in {"delay", "fetch"})
         => /\ GetsOf(t) = 0 /\ PutsOf(t) = 0
            /\ tasks[t].resp = NoResponse /\ tasks[t].result = NoResult
    /\ (wtask = t /\ wpc = "calc")
         => /\ GetsOf(t) = 1 /\ PutsOf(t) = 0
            /\ tasks[t].resp # NoResponse /\ tasks[t].result = NoResult
    /\ tasks[t].state = "FINISHED"
         => GetsOf(t) = 1 /\ tasks[t].resp # NoResponse
    /\ PutsOf(t) >= 1
         => /\ tasks[t].state = "FINISHED" /\ GetsOf(t) = 1
            /\ PutsCarry(t, tasks[t].id, Payload(tasks[t].result))

C14_Witness ==
  \E t, u \in TaskIds :
    /\ tasks[t].state = "FINISHED" /\ PutsOf(t) = 1 /\ GetsOf(t) = 1
    /\ wtask = u /\ wpc = "fetch" /\ GetsOf(u) = 0

\* C15: under a fair scheduler every submitted task ends finished (completed
\* or failed) or cancelled, and the handling of its end, the report attempt
\* included, is over.
C15_EveryTaskEnds ==
  \A u \in Requests :
    (u \in TaskIds)
      ~> (/\ u \in TaskIds
          /\ tasks[u].state \in {"FINISHED", "CANCELLED"}
          /\ tasks[u].cbdone)

C15_Witness ==
  \E t, u \in TaskIds :
    /\ t < u
    /\ tasks[t].state = "FINISHED" /\ tasks[t].resp = TransportError
    /\ ReportFailed(t) /\ tasks[t].cbdone
    /\ tasks[u].state = "FINISHED" /\ tasks[u].cbdone

\* C16: a task's state changes only from PENDING to RUNNING, from RUNNING to
\* FINISHED and from PENDING to CANCELLED; a PENDING task is held exactly
\* once, by the queue, by the worker about to run it or by the shutdown
\* about to cancel it, and no other task is held; the task the worker runs
\* is RUNNING, so no task runs twice and no running task is cancelled.
C16_TaskTransitions ==
  /\ [](\A t \in TaskIds :
          /\ Holders(t) = (IF tasks[t].state = "PENDING" THEN 1 ELSE 0)
          /\ (wtask = t /\ wpc \in {"delay", "fetch", "calc"})
               => tasks[t].state = "RUNNING"
          /\ tasks[t].state = "RUNNING" => wtask = t
          /\ GetsOf(t) <= 1)
  /\ [][\A t \in TaskIds :
          tasks'[t].state # tasks[t].state =>
            \/ tasks[t].state = "PENDING" /\ tasks'[t].state = "RUNNING"
            \/ tasks[t].state = "RUNNING" /\ tasks'[t].state = "FINISHED"
            \/ tasks[t].state = "PENDING" /\ tasks'[t].state = "CANCELLED"]_vars

C16_Witness ==
  \E t, u \in TaskIds :
    /\ tasks[t].state = "RUNNING" /\ wpc = "calc"
    /\ tasks[u].state = "CANCELLED"
    /\ shut = "closed"
    /\ t < u

\* The body of a trigger request holds pk and the right token.
WellFormed(body) ==
  body.data /\ body.mapping /\ body.hasPk /\ body.hasToken
    /\ body.token = AUTH_TOKEN

\* C17: a POST request whose body is empty, lacks pk or token or holds a
\* wrong token is answered 400 or 401, gets no task, and answering it leaves
\* the tasks, the queue, the GETs and the PUTs unchanged; every task belongs
\* to exactly one request, which is well-formed and names the task's id.
C17_OnlyValidatedEnqueue ==
  /\ [](\A r \in Requests :
          (req[r].pc # "new" /\ req[r].method = "POST"
             /\ ~WellFormed(req[r].body))
            => /\ req[r].pc = "done" /\ req[r].task = 0
               /\ req[r].status \in {HTTP_400_BAD_REQUEST, HTTP_401_UNAUTHORIZED})
  /\ [](\A t \in TaskIds :
          /\ Cardinality({r \in Requests : req[r].task = t}) = 1
          /\ \A r \in Requests :
               req[r].task = t
                 => /\ req[r].method = "POST" /\ WellFormed(req[r].body)
                    /\ req[r].body.pk = tasks[t].id)
  /\ [][\A r \in Requests :
          (req[r].pc = "new" /\ req'[r].pc # "new" /\ ~WellFormed(req'[r].body))
            => UNCHANGED <<tasks, queue, gets, puts>>]_vars

\* How many requests were accepted for identifier id, and how many tasks,
\* GETs and PUTs there are for it.
AcceptedFor(id) ==
  Cardinality({r \in Requests :
                 /\ req[r].pc # "new" /\ req[r].method = "POST"
                 /\ WellFormed(req[r].body)
                 /\ req[r].body.pk = id
                 /\ req[r].status # HTTP_500_INTERNAL_SERVER_ERROR})
TasksFor(id) == {t \in TaskIds : tasks[t].id = id}
GetsFor(id) == Cardinality({i \in 1..Len(gets) : gets[i].id = id})
PutsFor(id) == Cardinality({i \in 1..Len(puts) : puts[i].id = id})

\* C18: every accepted submission has a task of its own, held in the queue
\* until the worker (or a draining shutdown) takes it, also when its
\* identifier is already queued, running or
\* done; an identifier is fetched once per task of it that ran, and once all
\* its k tasks are finished and handled it was fetched and reported k times.
C18_NoDeduplication ==
  /\ \A id \in Ids : Cardinality(TasksFor(id)) = AcceptedFor(id)
  /\ \A r, q \in Requests :
       (r # q /\ req[r].task # 0) => req[r].task # req[q].task
  /\ \A t \in TaskIds : tasks[t].state = "PENDING" => Holders(t) = 1
  /\ \A id \in Ids :
       /\ GetsFor(id) =
            Cardinality({t \in TasksFor(id) :
                           \/ tasks[t].state = "FINISHED"
                           \/ wtask = t /\ wpc \in {"calc", "callback"}})
       /\ (\A t \in TasksFor(id) : tasks[t].state = "FINISHED" /\ tasks[t].cbdone)
            => /\ GetsFor(id) = AcceptedFor(id)
               /\ PutsFor(id) = AcceptedFor(id)

C18_Witness ==
  /\ Len(tasks) = 2 /\ tasks[1].id = tasks[2].id
  /\ \A t \in TaskIds : tasks[t].state = "FINISHED" /\ tasks[t].cbdone
  /\ GetsFor(tasks[1].id) = 2 /\ PutsFor(tasks[1].id) = 2
  /\ puts[1].payload # puts[2].payload

\* C19: every report is addressed to the identifier its task was submitted
\* with and carries the outcome calculate_personal_cpi gives for that
\* identifier and the response fetched by that task, nothing else; the
\* outcome kept in a finished future is that same value.
C19_TasksShareNothing ==
  /\ \A i \in 1..Len(puts) :
       LET t == puts[i].task
       IN /\ t \in TaskIds
          /\ puts[i].id = tasks[t].id
          /\ puts[i].payload =
               Payload(calculate_personal_cpi(tasks[t].id, tasks[t].resp).value)
  /\ \A t \in TaskIds :
       tasks[t].state = "FINISHED"
         => /\ OwnOutcome(t)
            /\ tasks[t].result.id = tasks[t].id

C19_Witness ==
  \E t, u \in TaskIds :
    /\ t < u /\ tasks[t].id # tasks[u].id
    /\ PutsOf(t) = 1 /\ PutsOf(u) = 1
    /\ tasks[t].result.success /\ ~tasks[u].result.success
    /\ tasks[u].cbdone /\ tasks[t].cbdone

====
